---- MODULE Spec2Model ----
(***************************************************************************)
(* Model of the PGN analysis pipeline of the Chess Analysis Portal:        *)
(* upload_pgn and analyze_pgn_file in src/backend/app.py, with the engine  *)
(* settings of src/config/config.py.  One run of the upload handler is     *)
(* followed statement by statement; the program counter pc names the next  *)
(* statement to execute.  The engine, the file system and the uploaded     *)
(* file are the environment.                                               *)
(***************************************************************************)
EXTENDS Integers, Sequences, FiniteSets, TLC

\* ---------------------------------------------------------------- bounds
\* Longest mainline (number of plies) of an uploaded game.
MaxMoves == 2

\* ------------------------------------------------------ program constants
\* mate_score argument of score() (app.py:150, app.py:156).
MATE_SCORE == 10000
\* start argument of enumerate(game.mainline(), 1) (app.py:148).
ENUMERATE_START == 1
\* Config.ENGINES['stockfish']: one 'path' followed by three
\* 'fallback_paths' (config.py:22-27).  Candidates are numbered in the
\* configured order: 1 is 'path', 2..4 are the fallbacks.
NUM_FALLBACK_PATHS == 3
NumCandidates == 1 + NUM_FALLBACK_PATHS
\* engine_path = '/opt/homebrew/bin/stockfish' (app.py:142) is candidate 1,
\* the configured 'path'.
engine_path == 1

\* ------------------------------------------------------------ data values
\* Python Optional[int]: None, or an int.
None == [some |-> FALSE, v |-> 0]
Some(x) == [some |-> TRUE, v |-> x]

\* Python truthiness of an Optional[int]: None and 0 are falsy.
Truthy(o) == o.some /\ o.v # 0

Max(a, b) == IF a >= b THEN a ELSE b

\* What the engine can answer to one analyse request: a centipawn score, a
\* mate-in-n score (n > 0: side to move mates, n < 0: side to move is
\* mated), or a reply from which score() yields no number.
Cp(x) == [kind |-> "cp", v |-> x]
Mate(n) == [kind |-> "mate", v |-> n]
NoScore == [kind |-> "none", v |-> 0]
NoInfo == [kind |-> "unset", v |-> 0]
EngineScores == {Cp(-40), Cp(-30), Cp(0), Cp(10), Cp(50), Mate(2), Mate(-1), NoScore}

\* info["score"].relative.score(mate_score=...): centipawns as they are,
\* mate in n as mate_score - n (n > 0) or -mate_score - n (n < 0).
Score(info, mate_score) ==
    CASE info.kind = "cp" -> Some(info.v)
      [] info.kind = "mate" -> Some(IF info.v > 0 THEN mate_score - info.v
                                                  ELSE (0 - mate_score) - info.v)
      [] OTHER -> None

\* app.py:158
\*   max(0, eval_before - (-eval_after)) if eval_before and eval_after else 0
CentipawnLossUnclamped(eval_before, eval_after) ==
    IF Truthy(eval_before) /\ Truthy(eval_after)
    THEN eval_before.v - (0 - eval_after.v)
    ELSE 0
CentipawnLossMissingAsZero(eval_before, eval_after) ==
    Max(0, (IF eval_before.some THEN eval_before.v ELSE 0)
           - (0 - (IF eval_after.some THEN eval_after.v ELSE 0)))
CentipawnLoss(eval_before, eval_after) ==
    IF Truthy(eval_before) /\ Truthy(eval_after)
    THEN Max(0, eval_before.v - (0 - eval_after.v))
    ELSE 0

\* app.py:163   eval_before or 0
StoredEvalBefore(eval_before) ==
    IF Truthy(eval_before) THEN eval_before.v ELSE 0

\* app.py:164   -eval_after if eval_after else 0
StoredEvalAfterUnflipped(eval_after) ==
    IF Truthy(eval_after) THEN eval_after.v ELSE 0
StoredEvalAfter(eval_after) ==
    IF Truthy(eval_after) THEN 0 - eval_after.v ELSE 0

\* app.py:148  the index enumerate(..., 1) pairs with the k-th mainline node.
MoveNumFromZero(k) == k - 1
MoveNum(k) == ENUMERATE_START + (k - 1)

\* app.py:160-166  the dict appended for one move; str(move) is identified
\* with the position of the node in the mainline.
MoveAnalysis(num, k, eval_before, eval_after) ==
    [move_number |-> num,
     move |-> k,
     eval_before |-> StoredEvalBefore(eval_before),
     eval_after |-> StoredEvalAfter(eval_after),
     centipawn_loss |-> CentipawnLoss(eval_before, eval_after)]

\* app.py:144  leaving the with block (normally or by an exception) closes
\* the engine once.
ExitWithLeak(n) == n
ExitWith(n) == n + 1

\* Values analyze_pgn_file hands to its caller.
Pending == [kind |-> "pending", data |-> <<>>, error |-> ""]
ReturnNone == [kind |-> "None", data |-> <<>>, error |-> ""]
ReturnList(data) == [kind |-> "list", data |-> data, error |-> ""]
ReturnError(e) == [kind |-> "error", data |-> <<>>, error |-> e]
Raised(e) == [kind |-> "raised", data |-> <<>>, error |-> e]

NoGame == 0 - 1

VARIABLES
    pc,               \* next statement of the run
    upload,           \* the request: "missing", "noname", "notpgn", "pgn"
    readable,         \* whether open(pgn_path) succeeds
    game,             \* NoGame if read_game returns None, else the number of mainline moves
    firstLaunchable,  \* first candidate path that launches and handshakes, 0 if none
    board,            \* number of moves pushed on the board
    node,             \* position of the loop in game.mainline()
    move_num,
    info_before, info_after,
    eval_before, eval_after,
    analysis_data,
    starts, stops,    \* engine processes launched / closed
    analyses,         \* completed engine.analyse calls
    faultAt,          \* node at which engine.analyse raised, 0 if it never did
    retryWouldSucceed,\* whether the engine would have answered the re-issued request
    aborted,          \* a KeyboardInterrupt was delivered during an analyse call
    result,           \* what analyze_pgn_file returned
    response          \* what upload_pgn answered

vars == <<pc, upload, readable, game, firstLaunchable, board, node, move_num,
          info_before, info_after, eval_before, eval_after, analysis_data,
          starts, stops, analyses, faultAt, retryWouldSucceed, aborted,
          result, response>>

env == <<upload, readable, game, firstLaunchable>>
locals == <<board, node, move_num, info_before, info_after, eval_before,
            eval_after, analysis_data>>
ghosts == <<faultAt, retryWouldSucceed, aborted>>

NoResponse == [kind |-> "pending", error |-> "", analysis |-> Pending]

Init ==
    /\ pc = "upload"
    /\ upload \in {"missing", "noname", "notpgn", "pgn"}
    /\ readable \in BOOLEAN
    /\ game \in {NoGame} \cup (0..MaxMoves)
    /\ firstLaunchable \in 0..NumCandidates
    /\ board = 0
    /\ node = 0
    /\ move_num = 0
    /\ info_before = NoInfo
    /\ info_after = NoInfo
    /\ eval_before = None
    /\ eval_after = None
    /\ analysis_data = <<>>
    /\ starts = 0
    /\ stops = 0
    /\ analyses = 0
    /\ faultAt = 0
    /\ retryWouldSucceed = FALSE
    /\ aborted = FALSE
    /\ result = Pending
    /\ response = NoResponse

\* ------------------------------------------------------------- upload_pgn
\* app.py:108-115, 131  the request carries no usable .pgn file.
UploadRejected ==
    /\ pc = "upload"
    /\ upload # "pgn"
    /\ response' = [kind |-> "json",
                    error |-> CASE upload = "missing" -> "No file uploaded"
                                [] upload = "noname" -> "No file selected"
                                [] OTHER -> "Invalid file format",
                    analysis |-> Pending]
    /\ pc' = "done"
    /\ UNCHANGED <<env, locals, ghosts, starts, stops, analyses, result>>

\* app.py:115-123  file.save, then the call of analyze_pgn_file; a failing
\* file.save is outside any try and propagates.
UploadAccepted ==
    /\ pc = "upload"
    /\ upload = "pgn"
    /\ \E saved \in BOOLEAN :
          IF saved
          THEN /\ pc' = "open"
               /\ UNCHANGED response
          ELSE /\ pc' = "done"
               /\ response' = [kind |-> "raised", error |-> "file.save", analysis |-> Pending]
    /\ UNCHANGED <<env, locals, ghosts, starts, stops, analyses, result>>

\* ------------------------------------------------------- analyze_pgn_file
\* app.py:136, 175-176  open() raises; the except clause returns the dict.
OpenFails ==
    /\ pc = "open"
    /\ ~readable
    /\ result' = ReturnError("open")
    /\ pc' = "respond"
    /\ UNCHANGED <<env, locals, ghosts, starts, stops, analyses, response>>

\* app.py:137-140  read_game found no game.
ReadsNoGame ==
    /\ pc = "open"
    /\ readable
    /\ game = NoGame
    /\ result' = ReturnNone
    /\ pc' = "respond"
    /\ UNCHANGED <<env, locals, ghosts, starts, stops, analyses, response>>

\* app.py:137-142
ReadsGame ==
    /\ pc = "open"
    /\ readable
    /\ game # NoGame
    /\ pc' = "popen"
    /\ UNCHANGED <<env, locals, ghosts, starts, stops, analyses, result, response>>

\* app.py:142-146  popen_uci(engine_path): the one hard-coded path is
\* launched; no other candidate is tried.
PopenUci ==
    /\ pc = "popen"
    /\ IF firstLaunchable = engine_path
       THEN /\ starts' = starts + 1
            /\ board' = 0
            /\ analysis_data' = <<>>
            /\ pc' = "for"
            /\ UNCHANGED result
       ELSE /\ result' = ReturnError("popen_uci")
            /\ pc' = "respond"
            /\ UNCHANGED <<starts, board, analysis_data>>
    /\ UNCHANGED <<env, node, move_num, info_before, info_after, eval_before,
                   eval_after, ghosts, stops, analyses, response>>

\* app.py:148  the loop head: the next mainline node, or the end of the
\* with block.
ForNext ==
    /\ pc = "for"
    /\ IF node < game
       THEN /\ node' = node + 1
            /\ move_num' = MoveNum(node + 1)
            /\ pc' = "analyse_before"
            /\ UNCHANGED stops
       ELSE /\ stops' = ExitWith(stops)
            /\ pc' = "save"
            /\ UNCHANGED <<node, move_num>>
    /\ UNCHANGED <<env, board, info_before, info_after, eval_before, eval_after,
                   analysis_data, ghosts, starts, analyses, result, response>>

\* app.py:149-150
AnalyseBefore ==
    /\ pc = "analyse_before"
    /\ \E s \in EngineScores :
          /\ info_before' = s
          /\ eval_before' = Score(s, MATE_SCORE)
    /\ analyses' = analyses + 1
    /\ pc' = "push"
    /\ UNCHANGED <<env, board, node, move_num, info_after, eval_after,
                   analysis_data, ghosts, starts, stops, result, response>>

\* app.py:152-153
Push ==
    /\ pc = "push"
    /\ board' = board + 1
    /\ pc' = "analyse_after"
    /\ UNCHANGED <<env, node, move_num, info_before, info_after, eval_before,
                   eval_after, analysis_data, ghosts, starts, stops, analyses,
                   result, response>>

\* app.py:155-156
AnalyseAfter ==
    /\ pc = "analyse_after"
    /\ \E s \in EngineScores :
          /\ info_after' = s
          /\ eval_after' = Score(s, MATE_SCORE)
    /\ analyses' = analyses + 1
    /\ pc' = "append"
    /\ UNCHANGED <<env, board, node, move_num, info_before, eval_before,
                   analysis_data, ghosts, starts, stops, result, response>>

\* app.py:158-166
AppendMove ==
    /\ pc = "append"
    /\ analysis_data' = Append(analysis_data,
                               MoveAnalysis(move_num, node, eval_before, eval_after))
    /\ pc' = "for"
    /\ UNCHANGED <<env, board, node, move_num, info_before, info_after,
                   eval_before, eval_after, ghosts, starts, stops, analyses,
                   result, response>>

\* app.py:149/155, 144, 175-176  engine.analyse raises (timeout, protocol
\* error, dead engine): the with block closes the engine, the except clause
\* returns the error dict.  Nothing is re-issued; whether a second request
\* would have been answered is recorded for the record only.
AnalyseFault ==
    /\ pc \in {"analyse_before", "analyse_after"}
    /\ \E r \in BOOLEAN : retryWouldSucceed' = r
    /\ faultAt' = node
    /\ stops' = ExitWith(stops)
    /\ result' = ReturnError("analyse")
    /\ pc' = "respond"
    /\ UNCHANGED <<env, locals, aborted, starts, analyses, response>>

\* app.py:149/155, 144, 175  a KeyboardInterrupt during engine.analyse: the
\* with block closes the engine; `except Exception` does not catch it.
AnalyseAbort ==
    /\ pc \in {"analyse_before", "analyse_after"}
    /\ aborted' = TRUE
    /\ stops' = ExitWith(stops)
    /\ result' = Raised("KeyboardInterrupt")
    /\ pc' = "respond"
    /\ UNCHANGED <<env, locals, faultAt, retryWouldSucceed, starts, analyses, response>>

\* app.py:168-176  write the analysis file and return the list; a failing
\* write is caught and the error dict returned instead.
SaveAnalysis ==
    /\ pc = "save"
    /\ \E written \in BOOLEAN :
          result' = IF written THEN ReturnList(analysis_data) ELSE ReturnError("save")
    /\ pc' = "respond"
    /\ UNCHANGED <<env, locals, ghosts, starts, stops, analyses, response>>

\* app.py:123-129  upload_pgn wraps whatever analyze_pgn_file returned.
Respond ==
    /\ pc = "respond"
    /\ response' = IF result.kind = "raised"
                   THEN [kind |-> "raised", error |-> result.error, analysis |-> Pending]
                   ELSE [kind |-> "json", error |-> "", analysis |-> result]
    /\ pc' = "done"
    /\ UNCHANGED <<env, locals, ghosts, starts, stops, analyses, result>>

Next ==
    \/ UploadRejected
    \/ UploadAccepted
    \/ OpenFails
    \/ ReadsNoGame
    \/ ReadsGame
    \/ PopenUci
    \/ ForNext
    \/ AnalyseBefore
    \/ Push
    \/ AnalyseAfter
    \/ AppendMove
    \/ AnalyseFault
    \/ AnalyseAbort
    \/ SaveAnalysis
    \/ Respond

Spec == Init /\ [][Next]_vars

\* ------------------------------------------------------------ properties
Last == analysis_data[Len(analysis_data)]

\* The record of the current move has just been appended and the locals
\* info_before, info_after, eval_before, eval_after are still those it was
\* built from.
JustAppended == pc = "for" /\ Len(analysis_data) > 0

\* C1: every record appended by analyze_pgn_file, whatever the two engine
\* evaluations were (integers or missing), has centipawn_loss >= 0; so has
\* every record of a returned list.
C1_LossNonNegative ==
    /\ \A i \in 1..Len(analysis_data) : analysis_data[i].centipawn_loss >= 0
    /\ \A i \in 1..Len(result.data) : result.data[i].centipawn_loss >= 0

\* C1 witness: a move that raised the evaluation (before 10, raw after -40)
\* was recorded, and its loss was clamped to 0.
C1_Witness ==
    /\ JustAppended
    /\ eval_before = Some(10)
    /\ eval_after = Some(0 - 40)
    /\ Last.centipawn_loss = 0

\* C2: whenever both evaluations of a move are available integers (0
\* included), the recorded centipawn_loss is max(0, evalBefore - (-evalAfter)).
C2_LossIsClampedDifference ==
    (JustAppended /\ eval_before.some /\ eval_after.some)
        => Last.centipawn_loss = Max(0, eval_before.v - (0 - eval_after.v))

C5_SessionStartedOnceStoppedOnce ==
    /\ starts <= 1
    /\ stops <= starts
    /\ (analyses > 0 => starts = 1)
    /\ (pc \in {"for", "analyse_before", "push", "analyse_after", "append"}
          => starts = 1 /\ stops = 0)
    /\ (pc \in {"save", "respond", "done"} => stops = starts)

\* C5 witness: the run ended by an engine fault on move 2 and the engine
\* that had been started was stopped once.
C5_Witness ==
    /\ pc = "done"
    /\ faultAt = 2
    /\ starts = 1
    /\ stops = 1

\* C6: if an engine fault occurs while move k is evaluated and the retry of
\* move k succeeds, the run yields the complete list of all N entries.
C6_RetryTransparency ==
    (pc = "done" /\ faultAt > 0 /\ retryWouldSucceed)
        => /\ result.kind = "list"
           /\ Len(result.data) = game

\* C7: if the evaluation of move k >= 2 fails unrecoverably, the caller gets
\* the k-1 entries of moves 1..k-1, in order.
C7_PartialKeepsPrefix ==
    (pc = "done" /\ faultAt >= 2 /\ ~retryWouldSucceed)
        => /\ Len(result.data) = faultAt - 1
           /\ \A i \in 1..Len(result.data) : result.data[i].move_number = i

\* C8: the stored evaluations are from the mover's perspective: eval_before
\* is the engine's score of the pre-move position, eval_after the negated
\* score of the post-move position; mate scores are finite, of magnitude
\* just below 10000 and with the sign of the side that mates.
C8_MoverPerspective ==
    JustAppended =>
        /\ (eval_before.some => Last.eval_before = eval_before.v)
        /\ (eval_after.some => Last.eval_after = 0 - eval_after.v)
        /\ (info_before.kind = "cp" => Last.eval_before = info_before.v)
        /\ (info_after.kind = "cp" => Last.eval_after = 0 - info_after.v)
        /\ (info_before.kind = "mate" /\ info_before.v > 0
              => Last.eval_before = MATE_SCORE - info_before.v)
        /\ (info_after.kind = "mate" /\ info_after.v > 0
              => Last.eval_after = 0 - (MATE_SCORE - info_after.v))
        /\ (info_after.kind = "mate" /\ info_after.v < 0
              => Last.eval_after = MATE_SCORE + info_after.v)
        /\ Last.eval_before \in (0 - MATE_SCORE)..MATE_SCORE
        /\ Last.eval_after \in (0 - MATE_SCORE)..MATE_SCORE

\* C8 witness: the mover had +50 and left the opponent a mate in 2; the
\* record stores 50 and -9998.
C8_Witness ==
    /\ JustAppended
    /\ info_before = Cp(50)
    /\ info_after = Mate(2)
    /\ Last.eval_before = 50
    /\ Last.eval_after = 0 - 9998

\* C9: whatever the input and the engine do (short of an abort), the caller
\* of analyze_pgn_file gets a list or a structured failure, never a bare
\* None and never an exception.
C9_NeverEmptyResponse ==
    (pc = "done" /\ result # Pending /\ ~aborted)
        => result.kind \in {"list", "error"}

\* C10: start-up fails only if every candidate path (the primary, then the
\* fallbacks in order) failed to launch.
C10_FailsOnlyIfAllCandidatesFail ==
    (result.kind = "error" /\ result.error = "popen_uci")
        => firstLaunchable = 0

TypeOK ==
    /\ pc \in {"upload", "open", "popen", "for", "analyse_before", "push",
               "analyse_after", "append", "save", "respond", "done"}
    /\ game \in {NoGame} \cup (0..MaxMoves)
    /\ node \in 0..MaxMoves
    /\ board \in 0..MaxMoves
    /\ Len(analysis_data) <= MaxMoves
    /\ result.kind \in {"pending", "None", "list", "error", "raised"}
====
